---- MODULE Spec2Model ----
(***************************************************************************)
(* Restaurant booking agent: the step graph (agent_graph.py), the step     *)
(* functions (agent_nodes.py) and the state they thread (agent_state.py).  *)
(*                                                                         *)
(* Optional values of the source are modelled with a uniform shape so that *)
(* they stay comparable: strings use the value "None", records carry an    *)
(* isNone flag.  A parameter field is "null" (None), "falsy" (a non-null   *)
(* value that Python treats as false: "" or 0) or "val".                   *)
(***************************************************************************)
EXTENDS Integers, Sequences, FiniteSets, TLC

\* ---------------------------------------------------------------- bounds
MaxCand == 3
MaxResumes == 2
MaxIterationCount == 22
MaxRank == 4

\* ------------------------------------------------------ program constants
DEFAULT_MAX_ITERATIONS == 10
START_MAX_ITERATIONS == 20
ITERATION_CEILING == 20

\* ------------------------------------------------------------ data model
Fields == {"query", "location", "date", "time", "num_people"}

NullParams == [f \in Fields |-> "null"]

\* ReservationParams: every field defaults to None
ReservationParams(v) == [isNone |-> FALSE, v |-> v]

NoParams == [isNone |-> TRUE, v |-> NullParams]

\* RestaurantCandidate; gen identifies the search that created the object
RestaurantCandidate(id, g) ==
    [place_id |-> id, gen |-> g, has_api_booking |-> FALSE,
     available |-> "None", agent_score |-> FALSE]

NoCandidate == [isNone |-> TRUE, r |-> RestaurantCandidate(0, 0)]

Some(r) == [isNone |-> FALSE, r |-> r]

NoMessage == [role |-> "none", content |-> "none"]

\* messages.append(entry)
append(msgs, role, content) ==
    [len |-> msgs.len + 1, last |-> [role |-> role, content |-> content]]

\* operator.add on the messages channel
operator_add(channel, update) ==
    [len |-> channel.len + update.len,
     last |-> IF update.len > 0 THEN update.last ELSE channel.last]

create_initial_state ==
    [messages |-> append([len |-> 0, last |-> NoMessage], "user", "text"),
     current_step |-> "classify_intent",
     iteration_count |-> 0,
     needs_user_input |-> FALSE,
     user_intent |-> "None",
     reservation_params |-> NoParams,
     search_results |-> [isNone |-> TRUE, gen |-> 0, restaurants |-> <<>>],
     top_3_restaurants |-> [isNone |-> TRUE, items |-> <<>>],
     selected_restaurant |-> NoCandidate,
     booking_status |-> "None",
     booking_confirmation |-> "None",
     voice_call_transcript |-> "None",
     error |-> "None"]

is_state_complete_for_search(s) ==
    /\ ~s.reservation_params.isNone
    /\ s.reservation_params.v["query"] # "null"
    /\ s.reservation_params.v["location"] # "null"

get_missing_critical_params(s) ==
    IF s.reservation_params.isNone THEN Fields
    ELSE {f \in Fields : s.reservation_params.v[f] # "val"}

\* ------------------------------------------------------------ call_llm
\* the request either returns the model's text or raises; an exception is
\* turned into a JSON document with the single key "error"
call_llm(reply) ==
    IF reply.kind = "raise" THEN [reply EXCEPT !.kind = "error_json"] ELSE reply

\* ------------------------------------------------------------ step functions
classify_intent_node(s, response) ==
    CASE response.kind = "json" ->
           [s EXCEPT !.user_intent = "search_and_book",
                     !.current_step = "extract_parameters"]
      [] response.kind = "error_json" ->
           [s EXCEPT !.user_intent = "unclear",
                     !.current_step = "extract_parameters"]
      [] OTHER ->
           [s EXCEPT !.error = "Error clasificando intencion",
                     !.current_step = "error"]

extract_parameters_node(s, response) ==
    CASE response.kind = "json" ->
           [s EXCEPT !.reservation_params = ReservationParams(response.params),
                     !.current_step = "check_completeness"]
      [] response.kind = "error_json" ->
           [s EXCEPT !.reservation_params = ReservationParams(NullParams),
                     !.current_step = "check_completeness"]
      [] OTHER ->
           [s EXCEPT !.error = "Error extrayendo parametros",
                     !.current_step = "error"]

\* check_completeness_node deciding on the search minimum (query, location)
check_completeness_node_search_minimum(s) ==
    IF is_state_complete_for_search(s)
    THEN [s EXCEPT !.current_step = "search", !.needs_user_input = FALSE]
    ELSE [s EXCEPT !.current_step = "ask_user", !.needs_user_input = TRUE]

check_completeness_node(s) ==
    IF is_state_complete_for_search(s) /\ get_missing_critical_params(s) = {}
    THEN [s EXCEPT !.current_step = "search", !.needs_user_input = FALSE]
    ELSE [s EXCEPT !.current_step = "ask_user", !.needs_user_input = TRUE]

ask_user_node(s) ==
    [s EXCEPT !.messages = append(s.messages, "assistant", "question"),
              !.current_step = "waiting_user"]

error_node(s) ==
    [s EXCEPT !.messages = append(s.messages, "assistant", s.error),
              !.current_step = "completed"]


\* object identity: the places that hold a reference to a candidate see
\* the in-place updates made through search_results.restaurants
SameObject(a, b) == a.place_id = b.place_id /\ a.gen = b.gen

Deref(restaurants, r) ==
    IF \E i \in 1..Len(restaurants) : SameObject(restaurants[i], r)
    THEN restaurants[CHOOSE i \in 1..Len(restaurants) : SameObject(restaurants[i], r)]
    ELSE r

DerefAll(s, restaurants) ==
    [s EXCEPT !.search_results.restaurants = restaurants,
              !.top_3_restaurants.items =
                  [i \in 1..Len(s.top_3_restaurants.items) |->
                       Deref(restaurants, s.top_3_restaurants.items[i])],
              !.selected_restaurant.r = Deref(restaurants, s.selected_restaurant.r)]

search_restaurants_node(s, result) ==
    IF result.kind = "ok"
    THEN LET g == s.search_results.gen + 1 IN
         [s EXCEPT !.search_results =
                       [isNone |-> FALSE, gen |-> g,
                        restaurants |-> [i \in 1..result.n |-> RestaurantCandidate(i, g)]],
                   !.current_step = "check_availability"]
    ELSE [s EXCEPT !.error = "Error buscando restaurantes",
                   !.current_step = "error"]

\* one candidate's availability answer written into the candidate
SetAvailability(r, availability) ==
    IF availability.kind = "raise"
    THEN [r EXCEPT !.has_api_booking = FALSE, !.available = "None"]
    ELSE [r EXCEPT !.has_api_booking = availability.has_api_booking,
                   !.available = availability.available]

\* check_availability_node giving up on the first candidate whose check raises
check_availability_node_abort_on_raise(s, availabilities) ==
    IF s.search_results.isNone
    THEN [s EXCEPT !.error = "No hay resultados de busqueda",
                   !.current_step = "error"]
    ELSE IF \E i \in 1..Len(s.search_results.restaurants) : availabilities[i].kind = "raise"
    THEN [s EXCEPT !.error = "Error verificando disponibilidad",
                   !.current_step = "error"]
    ELSE LET rs == s.search_results.restaurants
             upd == [i \in 1..Len(rs) |-> SetAvailability(rs[i], availabilities[i])]
         IN [DerefAll(s, upd) EXCEPT !.current_step = "rank"]

check_availability_node(s, availabilities) ==
    IF s.search_results.isNone
    THEN [s EXCEPT !.error = "No hay resultados de busqueda",
                   !.current_step = "error"]
    ELSE LET rs == s.search_results.restaurants
             upd == [i \in 1..Len(rs) |-> SetAvailability(rs[i], availabilities[i])]
         IN [DerefAll(s, upd) EXCEPT !.current_step = "rank"]

Min(a, b) == IF a < b THEN a ELSE b

KnownId(restaurants, id) == \E i \in 1..Len(restaurants) : restaurants[i].place_id = id

ById(restaurants, id) ==
    restaurants[CHOOSE i \in 1..Len(restaurants) :
                   /\ restaurants[i].place_id = id
                   /\ \A j \in 1..(i - 1) : restaurants[j].place_id # id]

\* index of the first ranked item whose place_id matches no candidate
FirstUnknown(restaurants, items) ==
    IF \E k \in 1..Len(items) : ~KnownId(restaurants, items[k])
    THEN CHOOSE k \in 1..Len(items) :
            /\ ~KnownId(restaurants, items[k])
            /\ \A j \in 1..(k - 1) : KnownId(restaurants, items[j])
    ELSE Len(items) + 1

\* result: raised (the exception leaves the step) or the updated state
rank_restaurants_node(s, response) ==
    IF s.search_results.isNone
    THEN [raised |-> TRUE, st |-> s]
    ELSE
      LET rs == s.search_results.restaurants
          first3 == SubSeq(rs, 1, Min(3, Len(rs)))
      IN
      IF response.kind # "json"
      THEN [raised |-> FALSE,
            st |-> [s EXCEPT !.top_3_restaurants = [isNone |-> FALSE, items |-> first3],
                             !.current_step = "present_options"]]
      ELSE
        LET items == response.top_3
            k == FirstUnknown(rs, items)
            scored == {items[j] : j \in 1..(k - 1)}
            rs2 == [i \in 1..Len(rs) |->
                       IF rs[i].place_id \in scored
                       THEN [rs[i] EXCEPT !.agent_score = TRUE] ELSE rs[i]]
            s2 == DerefAll(s, rs2)
            top_3 == [j \in 1..Len(items) |-> ById(rs2, items[j])]
        IN
        IF k <= Len(items) \/ Len(items) < 3
        THEN [raised |-> FALSE,
              st |-> [s2 EXCEPT !.top_3_restaurants =
                                    [isNone |-> FALSE,
                                     items |-> SubSeq(rs2, 1, Min(3, Len(rs2)))],
                                !.current_step = "present_options"]]
        ELSE [raised |-> FALSE,
              st |-> [s2 EXCEPT !.top_3_restaurants = [isNone |-> FALSE, items |-> top_3],
                                !.current_step = "present_options"]]

present_options_node(s) ==
    [s EXCEPT !.messages = append(s.messages, "assistant", "options"),
              !.needs_user_input = TRUE,
              !.current_step = "waiting_selection"]

\* book_restaurant_node without the check of the candidate's booking channel
book_restaurant_node_always_calls(s, result) ==
    IF result = "success"
    THEN [called |-> TRUE,
          st |-> [s EXCEPT !.booking_status = "api_success",
                           !.booking_confirmation = "api",
                           !.current_step = "finalize"]]
    ELSE [called |-> TRUE,
          st |-> [s EXCEPT !.booking_status = "api_failed",
                           !.current_step = "fallback_voice"]]

\* result: the updated state and whether make_reservation was called
book_restaurant_node(s, result) ==
    IF ~s.selected_restaurant.r.has_api_booking
    THEN [called |-> FALSE,
          st |-> [s EXCEPT !.booking_status = "api_failed",
                           !.current_step = "fallback_voice"]]
    ELSE IF result = "success"
    THEN [called |-> TRUE,
          st |-> [s EXCEPT !.booking_status = "api_success",
                           !.booking_confirmation = "api",
                           !.current_step = "finalize"]]
    ELSE [called |-> TRUE,
          st |-> [s EXCEPT !.booking_status = "api_failed",
                           !.current_step = "fallback_voice"]]

\* fallback_voice_node taking a completed call for a confirmed booking
fallback_voice_node_success_only(s, result) ==
    LET s1 == [s EXCEPT !.messages = append(s.messages, "assistant", "fallback")]
    IN CASE result \in {"confirmed", "declined"} ->
              [s1 EXCEPT !.voice_call_transcript = "transcript",
                         !.booking_status = "voice_success",
                         !.booking_confirmation = "voice",
                         !.current_step = "finalize"]
         [] result = "no_contact" ->
              [s1 EXCEPT !.voice_call_transcript = "transcript",
                         !.booking_status = "voice_failed",
                         !.error = "voice_message",
                         !.current_step = "error"]
         [] OTHER ->
              [s1 EXCEPT !.booking_status = "voice_failed",
                         !.error = "exception",
                         !.current_step = "error"]

\* result: what make_voice_reservation did: "confirmed" (success and
\* confirmation), "declined" (success, no confirmation), "no_contact"
\* (no success) or "raise"
fallback_voice_node(s, result) ==
    LET s1 == [s EXCEPT !.messages = append(s.messages, "assistant", "fallback")]
    IN CASE result = "confirmed" ->
              [s1 EXCEPT !.voice_call_transcript = "transcript",
                         !.booking_status = "voice_success",
                         !.booking_confirmation = "voice",
                         !.current_step = "finalize"]
         [] result \in {"declined", "no_contact"} ->
              [s1 EXCEPT !.voice_call_transcript = "transcript",
                         !.booking_status = "voice_failed",
                         !.error = "voice_message",
                         !.current_step = "error"]
         [] OTHER ->
              [s1 EXCEPT !.booking_status = "voice_failed",
                         !.error = "exception",
                         !.current_step = "error"]

\* ------------------------------------------------------------ routers
\* route_after_completeness_check looking at the input flag first
route_after_completeness_check_flag_first(s) ==
    IF s.needs_user_input THEN "ask_user"
    ELSE IF s.error # "None" THEN "error"
    ELSE "search"

route_after_completeness_check(s) ==
    IF s.error # "None" THEN "error"
    ELSE IF s.needs_user_input THEN "ask_user"
    ELSE "search"

\* route_after_booking sending every state with a failure to error
route_after_booking_error_first(s) ==
    IF s.error # "None" THEN "error"
    ELSE IF s.booking_status = "api_success" THEN "finalize"
    ELSE IF s.booking_status = "api_failed" THEN "fallback_voice"
    ELSE "error"

route_after_booking(s) ==
    IF s.error # "None" /\ s.booking_status = "voice_failed" THEN "error"
    ELSE IF s.booking_status = "api_success" THEN "finalize"
    ELSE IF s.booking_status = "api_failed" THEN "fallback_voice"
    ELSE "error"

\* route_after_voice_fallback sending a failed call back to the voice step
route_after_voice_fallback_retries(s) ==
    IF s.booking_status = "voice_success" THEN "finalize" ELSE "fallback_voice"

route_after_voice_fallback(s) ==
    IF s.booking_status = "voice_success" THEN "finalize" ELSE "error"

\* ------------------------------------------------------------ the graph
EntryPoint == "classify_intent"

\* the graph with search wired straight to rank
Edge_without_availability(n, s) ==
    CASE n = "classify_intent" -> "extract_parameters"
      [] n = "extract_parameters" -> "check_completeness"
      [] n = "check_completeness" -> route_after_completeness_check(s)
      [] n = "ask_user" -> "END"
      [] n = "search" -> "rank"
      [] n = "check_availability" -> "rank"
      [] n = "rank" -> "present_options"
      [] n = "present_options" -> "END"
      [] n = "book" -> route_after_booking(s)
      [] n = "fallback_voice" -> route_after_voice_fallback(s)
      [] n = "finalize" -> "END"
      [] n = "error" -> "END"

\* create_agent_graph: the node that follows node n, "END" to leave the graph
Edge(n, s) ==
    CASE n = "classify_intent" -> "extract_parameters"
      [] n = "extract_parameters" -> "check_completeness"
      [] n = "check_completeness" -> route_after_completeness_check(s)
      [] n = "ask_user" -> "END"
      [] n = "search" -> "check_availability"
      [] n = "check_availability" -> "rank"
      [] n = "rank" -> "present_options"
      [] n = "present_options" -> "END"
      [] n = "book" -> route_after_booking(s)
      [] n = "fallback_voice" -> route_after_voice_fallback(s)
      [] n = "finalize" -> "END"
      [] n = "error" -> "END"

\* a node returns the whole state; the messages channel accumulates what
\* the node returns onto the list the node has appended to in place
StateUpdate(s) == [s EXCEPT !.messages = operator_add(s.messages, s.messages)]


should_continue_or_end(s) ==
    IF s.iteration_count > ITERATION_CEILING THEN "end"
    ELSE IF s.current_step \in {"completed", "error", "waiting_user", "waiting_selection"}
    THEN "end"
    ELSE "continue"

\* the loop of run_agent_until_completion stopping only at completed
LoopAfterInvoke_runs_through_suspension(s, max_iterations) ==
    IF s.current_step = "completed"
    THEN [pc |-> "idle", st |-> s]
    ELSE IF s.error # "None"
    THEN [pc |-> "idle", st |-> s]
    ELSE IF s.iteration_count + 1 < max_iterations
    THEN [pc |-> EntryPoint, st |-> [s EXCEPT !.iteration_count = s.iteration_count + 1]]
    ELSE [pc |-> "idle", st |-> s]

\* run_agent_until_completion, after graph.invoke has returned s in the
\* pass numbered s.iteration_count: stop, or start the next pass
LoopAfterInvoke(s, max_iterations) ==
    IF s.current_step \in {"completed", "waiting_user", "waiting_selection"}
    THEN [pc |-> "idle", st |-> s]
    ELSE IF s.error # "None"
    THEN [pc |-> "idle", st |-> s]
    ELSE IF s.iteration_count + 1 < max_iterations
    THEN [pc |-> EntryPoint, st |-> [s EXCEPT !.iteration_count = s.iteration_count + 1]]
    ELSE [pc |-> "idle", st |-> s]

\* ------------------------------------------------------------ selection
parse_restaurant_selection(message, top_3) ==
    IF message.kind = "position"
    THEN IF message.n <= Len(top_3)
         THEN [kind |-> "some", r |-> top_3[message.n]]
         ELSE [kind |-> "raise", r |-> NoCandidate.r]
    ELSE IF message.kind = "name" /\ \E i \in 1..Len(top_3) : top_3[i].place_id = message.n
    THEN [kind |-> "some", r |-> ById(top_3, message.n)]
    ELSE [kind |-> "none", r |-> NoCandidate.r]

\* ------------------------------------------------- collaborators' answers
Only(S) == [f \in Fields |-> IF f \in S THEN "val" ELSE "null"]

\* what the model extracts: the query alone, everything but the query,
\* every critical field
ParamOutputs == {Only({"query"}), Only(Fields \ {"query"}), Only(Fields)}

ClassifyReplies == {[kind |-> k] : k \in {"json", "garbage", "raise"}}

ExtractReplies ==
    {[kind |-> "json", params |-> p] : p \in ParamOutputs}
    \cup {[kind |-> k, params |-> NullParams] : k \in {"garbage", "raise"}}

\* the search provider returns no candidate or MaxCand candidates, or raises
SearchAnswers ==
    {[kind |-> "ok", n |-> n] : n \in {0, MaxCand}} \cup {[kind |-> "raise", n |-> 0]}

AvailabilityAnswers ==
    {[kind |-> "ok", has_api_booking |-> TRUE, available |-> "True"],
     [kind |-> "ok", has_api_booking |-> FALSE, available |-> "False"],
     [kind |-> "raise", has_api_booking |-> FALSE, available |-> "None"]}

\* the availability provider's answers for candidates 1..n: any answer for
\* the first candidate, online booking and a free table for the others
AvailabilityVectors(n) ==
    {[i \in 1..n |-> IF i = 1 THEN a ELSE
                         [kind |-> "ok", has_api_booking |-> TRUE, available |-> "True"]] :
        a \in AvailabilityAnswers}

\* ranked place_ids: a permutation, an unknown id, a repeated id
RankOutputs == {<<3, 1, 2>>, <<1, MaxCand + 1, 2>>, <<1, 1, 2, 3>>}

RankReplies ==
    {[kind |-> "json", top_3 |-> t] : t \in RankOutputs}
    \cup {[kind |-> k, top_3 |-> <<>>] : k \in {"garbage", "raise"}}

BookingResults == {"success", "declined", "raise"}

VoiceResults == {"confirmed", "declined"}

SelectionMessages ==
    {[kind |-> "position", n |-> n] : n \in 1..3}
    \cup {[kind |-> "name", n |-> 1]}
    \cup {[kind |-> "other", n |-> 0]}

FreeText == [kind |-> "other", n |-> 0]

\* ------------------------------------------------------------ state
VARIABLES
    st,         \* the AgentState
    pc,         \* "new", "idle" (the caller holds st), "raised", a graph
                \* node about to run, or a position inside resume
    trace,      \* the steps executed by the call in progress, in order
    call,       \* the call in progress or last returned, and what st held on entry
    bookCalls,  \* what make_reservation answered to the call in progress
    nres        \* resume calls so far

vars == <<st, pc, trace, call, bookCalls, nres>>

GraphNodes ==
    {"classify_intent", "extract_parameters", "check_completeness", "ask_user",
     "search", "check_availability", "rank", "present_options", "book",
     "fallback_voice", "finalize", "error"}

Waiting == {"waiting_user", "waiting_selection"}

Range(f) == {f[i] : i \in 1..Len(f)}

MaxIterations == IF call.kind = "start" THEN START_MAX_ITERATIONS ELSE DEFAULT_MAX_ITERATIONS

Init ==
    /\ st = create_initial_state
    /\ pc = "new"
    /\ trace = <<>>
    /\ call = [kind |-> "none", from |-> "none", message |-> FreeText, voice |-> "none",
               selected |-> "none", repeat |-> FALSE, len0 |-> 0,
               status0 |-> "None", error0 |-> "None"]
    /\ bookCalls = <<>>
    /\ nres = 0

\* graph.invoke(state) inside run_agent_until_completion: first pass
Invoke(s) ==
    /\ st' = [s EXCEPT !.iteration_count = 0]
    /\ pc' = EntryPoint

\* a graph node has returned s1: merge it, follow the edge, and at END go
\* back to the loop of run_agent_until_completion
Advance(n, s1) ==
    LET s2 == StateUpdate(s1)
        nxt == Edge(n, s2)
    IN /\ IF nxt = "END"
          THEN LET r == LoopAfterInvoke(s2, MaxIterations)
               IN st' = r.st /\ pc' = r.pc
          ELSE st' = s2 /\ pc' = nxt
       /\ trace' = Append(trace, n)
       /\ UNCHANGED <<call, bookCalls, nres>>

\* start: create_initial_state + run_agent_until_completion
Start ==
    /\ pc = "new"
    /\ Invoke(create_initial_state)
    /\ trace' = <<>>
    /\ call' = [call EXCEPT !.kind = "start", !.from = "classify_intent",
                            !.len0 = create_initial_state.messages.len]
    /\ UNCHANGED <<bookCalls, nres>>

ClassifyIntent ==
    /\ pc = "classify_intent"
    /\ \E reply \in ClassifyReplies :
          Advance("classify_intent", classify_intent_node(st, call_llm(reply)))

ExtractParameters ==
    /\ pc = "extract_parameters"
    /\ \E reply \in ExtractReplies :
          Advance("extract_parameters", extract_parameters_node(st, call_llm(reply)))

CheckCompleteness ==
    /\ pc = "check_completeness"
    /\ Advance("check_completeness", check_completeness_node(st))

AskUser ==
    /\ pc = "ask_user"
    /\ Advance("ask_user", ask_user_node(st))

SearchRestaurants ==
    /\ pc = "search"
    /\ \E result \in SearchAnswers :
          Advance("search", search_restaurants_node(st, result))

CheckAvailability ==
    /\ pc = "check_availability"
    /\ \E availabilities \in AvailabilityVectors(Len(st.search_results.restaurants)) :
          Advance("check_availability", check_availability_node(st, availabilities))

RankRestaurants ==
    /\ pc = "rank"
    /\ \E reply \in RankReplies :
          LET r == rank_restaurants_node(st, call_llm(reply))
          IN IF r.raised
             THEN /\ pc' = "raised"
                  /\ trace' = Append(trace, "rank")
                  /\ UNCHANGED <<st, call, bookCalls, nres>>
             ELSE Advance("rank", r.st)

PresentOptions ==
    /\ pc = "present_options"
    /\ Advance("present_options", present_options_node(st))

ErrorNode ==
    /\ pc = "error"
    /\ Advance("error", error_node(st))

\* ------------------------------------------------------------ resume
\* resume_agent_after_user_input: the user message is appended and the
\* input flag reset before the phase is looked at
ResumeEntry(s) ==
    [s EXCEPT !.messages = append(s.messages, "user", "text"),
              !.needs_user_input = FALSE]

NewCall(message, voice, selected) ==
    /\ nres < MaxResumes
    /\ nres' = nres + 1
    /\ call' = [kind |-> "resume", from |-> st.current_step, message |-> message,
                voice |-> voice, selected |-> selected,
                repeat |-> (message = call.message /\ "book" \in Range(trace)),
                len0 |-> st.messages.len, status0 |-> st.booking_status,
                error0 |-> st.error]
    /\ trace' = <<>>
    /\ bookCalls' = <<>>

ResumeWaitingUser ==
    /\ pc = "idle"
    /\ st.current_step = "waiting_user"
    /\ NewCall(FreeText, "none", "none")
    /\ st' = [ResumeEntry(st) EXCEPT !.current_step = "extract_parameters"]
    /\ pc' = "resume_extract"

ResumeExtract ==
    /\ pc = "resume_extract"
    /\ \E reply \in ExtractReplies :
          st' = extract_parameters_node(st, call_llm(reply))
    /\ pc' = "resume_check"
    /\ trace' = Append(trace, "extract_parameters")
    /\ UNCHANGED <<call, bookCalls, nres>>

ResumeCheck ==
    /\ pc = "resume_check"
    /\ LET s1 == check_completeness_node(st)
       IN IF s1.current_step = "search"
          THEN Invoke(s1)
          ELSE st' = s1 /\ pc' = "idle"
    /\ trace' = Append(trace, "check_completeness")
    /\ UNCHANGED <<call, bookCalls, nres>>

ResumeWaitingSelection ==
    /\ pc = "idle"
    /\ st.current_step = "waiting_selection"
    /\ \E message \in SelectionMessages, voice \in VoiceResults :
          LET selection == parse_restaurant_selection(message, st.top_3_restaurants.items)
              s1 == ResumeEntry(st)
          IN CASE selection.kind = "raise" ->
                    /\ NewCall(message, "none", "none")
                    /\ st' = s1
                    /\ pc' = "raised"
               [] selection.kind = "none" ->
                    /\ NewCall(message, "none", "none")
                    /\ st' = [s1 EXCEPT !.messages = append(s1.messages, "assistant", "retry"),
                                        !.current_step = "waiting_selection"]
                    /\ pc' = "idle"
               [] OTHER ->
                    /\ NewCall(message, voice,
                               IF selection.r.has_api_booking THEN "api" ELSE "no_api")
                    /\ st' = [s1 EXCEPT !.selected_restaurant = Some(selection.r),
                                        !.current_step = "book"]
                    /\ pc' = "resume_book"

ResumeBook ==
    /\ pc = "resume_book"
    /\ \E result \in BookingResults :
          LET b == book_restaurant_node(st, result)
          IN /\ bookCalls' = IF b.called THEN Append(bookCalls, result) ELSE bookCalls
             /\ IF b.st.current_step \in {"finalize", "fallback_voice"}
                THEN Invoke(b.st)
                ELSE st' = b.st /\ pc' = "idle"
    /\ trace' = Append(trace, "book")
    /\ UNCHANGED <<call, nres>>

\* resume restarting the conversation when no branch applies
ResumeOther_reclassifies ==
    /\ pc = "idle"
    /\ st.current_step \notin Waiting
    /\ NewCall(FreeText, "none", "none")
    /\ Invoke(ResumeEntry(st))

ResumeOther ==
    /\ pc = "idle"
    /\ st.current_step \notin Waiting
    /\ NewCall(FreeText, "none", "none")
    /\ st' = ResumeEntry(st)
    /\ pc' = "idle"

Next ==
    \/ Start
    \/ ClassifyIntent
    \/ ExtractParameters
    \/ CheckCompleteness
    \/ AskUser
    \/ SearchRestaurants
    \/ CheckAvailability
    \/ RankRestaurants
    \/ PresentOptions
    \/ ErrorNode
    \/ ResumeWaitingUser
    \/ ResumeExtract
    \/ ResumeCheck
    \/ ResumeWaitingSelection
    \/ ResumeBook
    \/ ResumeOther

Spec == Init /\ [][Next]_vars

\* states in which a call has handed the state back to its caller
Returned == pc = "idle"


Terminal == {"completed"} \cup Waiting

Count(seq, x) == Cardinality({i \in 1..Len(seq) : seq[i] = x})

\* ------------------------------------------------------------ C1
\* C1: in every state handed back by start or resume, needs_user_input is
\* true exactly when current_step is waiting_user or waiting_selection.
NeedsInputIffWaiting ==
    Returned => (st.needs_user_input <=> st.current_step \in Waiting)

\* ------------------------------------------------------------ C2
\* C2: start, and resume called on a state in a waiting phase, hand back a
\* state whose current_step is completed, waiting_user or waiting_selection.
ReturnsOnlyAtSuspendOrTerminal ==
    (Returned /\ (call.kind = "start" \/ (call.kind = "resume" /\ call.from \in Waiting)))
        => st.current_step \in Terminal

\* ------------------------------------------------------------ C3
\* C3: a resume from waiting_selection whose selection resolves to a
\* candidate without online booking, with a voice provider that answers
\* confirmed=false, returns completed, voice_failed and a failure text.
ScenarioVoiceDeclined ==
    (Returned /\ call.from = "waiting_selection" /\ call.selected = "no_api"
              /\ call.voice = "declined")
        => /\ st.current_step = "completed"
           /\ st.booking_status = "voice_failed"
           /\ st.error # "None"

\* ------------------------------------------------------------ C4
\* C4: a resume from waiting_selection whose selection resolves to a
\* candidate with online booking and whose reservation succeeds returns
\* api_success, a confirmation, completed, and finalize's message last.
ScenarioBookingSucceeds ==
    (Returned /\ call.from = "waiting_selection" /\ call.selected = "api"
              /\ bookCalls = <<"success">>)
        => /\ st.booking_status = "api_success"
           /\ st.booking_confirmation # "None"
           /\ st.current_step = "completed"
           /\ Count(trace, "finalize") = 1
           /\ st.messages.last = [role |-> "assistant", content |-> "success"]

\* ------------------------------------------------------------ C5
\* C5: extract_parameters, run by start or by a resume from waiting_user,
\* never turns a parameter field that was non-null into null.
AdditiveMerge ==
    [][(/\ pc \in {"extract_parameters", "resume_extract"}
        /\ (call.kind = "start" \/ call.from = "waiting_user"))
       => \A f \in Fields :
             (~st.reservation_params.isNone /\ st.reservation_params.v[f] # "null")
                => (~st'.reservation_params.isNone /\ st'.reservation_params.v[f] # "null")]_vars

\* ------------------------------------------------------------ C6
\* C6: a resume from waiting_user that leaves a critical field missing runs
\* ask_user: one assistant question is appended after the user's message
\* and the state comes back in waiting_user with needs_user_input true.
AskedAgainWhileIncomplete ==
    (Returned /\ call.kind = "resume" /\ call.from = "waiting_user"
              /\ st.error = "None" /\ get_missing_critical_params(st) # {})
        => /\ Count(trace, "ask_user") = 1
           /\ st.messages.len = call.len0 + 2
           /\ st.messages.last = [role |-> "assistant", content |-> "question"]
           /\ st.current_step = "waiting_user"
           /\ st.needs_user_input

\* ------------------------------------------------------------ C7
\* C7: a resume that repeats the selection of the resume before it, which
\* ran book_restaurant, does not run book_restaurant, calls no booking
\* provider and leaves booking_status as it was.
ResumeIdempotent ==
    (Returned /\ call.repeat)
        => /\ Count(trace, "book") = 0
           /\ bookCalls = <<>>
           /\ st.booking_status = call.status0

\* ------------------------------------------------------------ C8
\* book_restaurant has just run on a candidate without online booking
BookedWithoutChannel == trace = <<"book">> /\ call.selected = "no_api"

\* C8: when book_restaurant runs on a selected candidate whose
\* has_api_booking is false, make_reservation is not called, booking_status
\* becomes api_failed, current_step becomes fallback_voice and the step
\* does not write error.
EscalationShortCircuit ==
    BookedWithoutChannel
        => /\ bookCalls = <<>>
           /\ st.booking_status = "api_failed"
           /\ st.current_step = "fallback_voice"
           /\ st.error = call.error0

EscalationWitness ==
    /\ BookedWithoutChannel
    /\ st.booking_status = "api_failed"
    /\ st.error = "None"

\* ------------------------------------------------------------ C9
\* The loop guard on its own: should_continue_or_end applied to a state, and
\* the loop of run_agent_until_completion driven by a graph whose routing
\* may hand back any step in any pass.
Steps == GraphNodes \cup Terminal

GuardInit ==
    /\ st \in {[create_initial_state EXCEPT !.current_step = c,
                                            !.iteration_count = i,
                                            !.error = e] :
                  c \in Steps, i \in 0..MaxIterationCount,
                  e \in {"None", "Error buscando restaurantes"}}
    /\ pc = "guard"
    /\ trace = <<>>
    /\ call \in {[kind |-> k, from |-> "none", message |-> FreeText, voice |-> "none",
                   selected |-> "none", repeat |-> FALSE, len0 |-> 0,
                   status0 |-> "None", error0 |-> "None"] : k \in {"start", "resume"}}
    /\ bookCalls = <<>>
    /\ nres = 0

ShouldContinueOrEnd ==
    /\ pc = "guard"
    /\ trace' = <<should_continue_or_end(st)>>
    /\ pc' = "guard_done"
    /\ UNCHANGED <<st, call, bookCalls, nres>>

\* st is what graph.invoke returned in pass number st.iteration_count
LoopPass ==
    /\ pc = "guard"
    /\ st.iteration_count < MaxIterations
    /\ LET r == LoopAfterInvoke(st, MaxIterations)
       IN IF r.pc = "idle"
          THEN st' = r.st /\ pc' = "loop_returned"
          ELSE /\ \E c \in Steps : st' = [r.st EXCEPT !.current_step = c]
               /\ pc' = "guard"
    /\ UNCHANGED <<trace, call, bookCalls, nres>>

GuardNext == ShouldContinueOrEnd \/ LoopPass

GuardSpec == GuardInit /\ [][GuardNext]_vars

\* the engine has stopped a run on its iteration limit: the guard has seen
\* more than ITERATION_CEILING, or the loop has used up its passes
IterationLimitHit ==
    \/ pc = "guard_done" /\ st.iteration_count > ITERATION_CEILING
    \/ /\ pc = "loop_returned"
       /\ st.current_step \notin Terminal
       /\ st.error = "None"

\* C9: when the iteration limit stops a run, the phase has been forced to
\* error (completed once reported) with the failure 'too many iterations'.
LoopGuardForcesError ==
    IterationLimitHit
        => /\ st.current_step \in {"error", "completed"}
           /\ st.error = "too many iterations"

\* ------------------------------------------------------------ C10
\* C10: a call that hands back a state with error set hands it back at
\* completed; when the error was set during the call, the error step ran
\* exactly once in it and its message, built from error, is the last one.
NoSilentFailure ==
    (Returned /\ st.error # "None")
        => /\ st.current_step = "completed"
           /\ (call.error0 = "None"
                 => /\ Count(trace, "error") = 1
                    /\ st.messages.last = [role |-> "assistant", content |-> st.error])

\* ------------------------------------------------------------ C11
\* C11: no step executed by start or resume lets an exception escape,
\* whatever the collaborators answer: neither call ends with an uncaught
\* exception.
NoUncaughtException == pc # "raised"

\* ------------------------------------------------------------ C12
\* C12: in every reachable state booking_confirmation is present exactly
\* when booking_status is api_success or voice_success.
ConfirmationIffSucceeded ==
    (st.booking_confirmation # "None")
        <=> (st.booking_status \in {"api_success", "voice_success"})

\* ------------------------------------------------------------ C13
\* C13: in every reachable state in which selected_restaurant is present,
\* the shortlist top_3_restaurants holds an entry with its place_id.
SelectionInShortlist ==
    ~st.selected_restaurant.isNone
        => \E i \in 1..Len(st.top_3_restaurants.items) :
              st.top_3_restaurants.items[i].place_id = st.selected_restaurant.r.place_id

\* ------------------------------------------------------------ C14
\* C14: right after rank_restaurants has run, top_3_restaurants has at most
\* 3 entries and each of them is one of search_results.restaurants.
ShortlistWithinCandidates ==
    pc = "present_options"
        => /\ Len(st.top_3_restaurants.items) <= 3
           /\ \A i \in 1..Len(st.top_3_restaurants.items) :
                 st.top_3_restaurants.items[i] \in Range(st.search_results.restaurants)

\* ------------------------------------------------------------ C15
\* the steps that write one entry to the conversation
Speaking == {"ask_user", "present_options", "fallback_voice", "finalize", "error"}

\* the step about to run, when one is
StepAt(p) ==
    CASE p \in GraphNodes -> p
      [] p = "resume_extract" -> "extract_parameters"
      [] p = "resume_check" -> "check_completeness"
      [] p = "resume_book" -> "book"
      [] OTHER -> "none"

\* C15: messages only grows by appends: a step adds exactly one entry when
\* it is ask_user, present_options, fallback_voice, finalize or error and
\* none when it is any other step, and the entry of a resume that goes on
\* to run steps adds exactly the user's entry.
MessagesAppendOnly ==
    [][/\ StepAt(pc) # "none"
          => st'.messages.len = st.messages.len + (IF StepAt(pc) \in Speaking THEN 1 ELSE 0)
       /\ (pc = "idle" /\ pc' \in {"resume_extract", "resume_book"})
          => st'.messages.len = st.messages.len + 1]_vars

\* ------------------------------------------------- the steps on their own
\* One step function applied to one state: the inputs of check_completeness,
\* parse_restaurant_selection and check_availability drawn from bounded sets.
ParamValues == {"null", "falsy", "val"}

NodeParams == {NoParams} \cup {ReservationParams(v) : v \in [Fields -> ParamValues]}

\* states that differ in what check_completeness_node can read
ParamStates ==
    {[create_initial_state EXCEPT !.reservation_params = p,
                                  !.needs_user_input = b,
                                  !.error = e,
                                  !.current_step = c] :
        p \in NodeParams, b \in BOOLEAN,
        e \in {"None", "Error extrayendo parametros"},
        c \in {"check_completeness", "error"}}

\* states after a search that found n candidates, the first three shortlisted
CandidateStates ==
    {[create_initial_state EXCEPT
         !.reservation_params = ReservationParams(Only(Fields)),
         !.search_results =
             [isNone |-> FALSE, gen |-> 1,
              restaurants |-> [i \in 1..n |-> RestaurantCandidate(i, 1)]],
         !.top_3_restaurants =
             [isNone |-> FALSE,
              items |-> [i \in 1..Min(3, n) |-> RestaurantCandidate(i, 1)]]] :
        n \in 0..MaxCand}

\* what the user can answer at waiting_selection: a position, a text that
\* holds the name of candidate n, any other text
ParserMessages ==
    {[kind |-> "position", n |-> n] : n \in 1..3}
    \cup {[kind |-> "name", n |-> n] : n \in 1..(MaxCand + 1)}
    \cup {FreeText}

BookingStatuses ==
    {"None", "pending", "api_success", "api_failed", "voice_success", "voice_failed",
     "cancelled"}

\* states with a selected candidate, in any booking outcome
BookingStates ==
    {[create_initial_state EXCEPT
         !.reservation_params = ReservationParams(Only(Fields)),
         !.search_results =
             [isNone |-> FALSE, gen |-> 1,
              restaurants |-> [i \in 1..MaxCand |->
                                  [RestaurantCandidate(i, 1) EXCEPT !.has_api_booking = api]]],
         !.top_3_restaurants =
             [isNone |-> FALSE,
              items |-> [i \in 1..Min(3, MaxCand) |->
                            [RestaurantCandidate(i, 1) EXCEPT !.has_api_booking = api]]],
         !.selected_restaurant =
             Some([RestaurantCandidate(1, 1) EXCEPT !.has_api_booking = api]),
         !.booking_status = b,
         !.booking_confirmation = c,
         !.error = e,
         !.current_step = "fallback_voice"] :
        api \in BOOLEAN, b \in BookingStatuses, c \in {"None", "api"},
        e \in {"None", "Error buscando restaurantes"}}

VoiceAnswers == {"confirmed", "declined", "no_contact", "raise"}

NoArg == [kind |-> "none"]

NodeInit ==
    /\ \/ pc \in {"check_completeness", "classify_intent", "extract_parameters",
                  "route_after_completeness_check"}
          /\ st \in ParamStates
       \/ pc \in {"parse_selection", "check_availability", "rank"}
          /\ st \in CandidateStates
       \/ pc \in {"fallback_voice", "book", "route_after_booking"} /\ st \in BookingStates
    /\ trace = <<>>
    /\ call = [kind |-> "node", s0 |-> st, arg |-> NoArg, out |-> NoArg]
    /\ bookCalls = <<>>
    /\ nres = 0

CheckCompletenessNode ==
    /\ pc = "check_completeness"
    /\ st' = check_completeness_node(st)
    /\ pc' = "node_done"
    /\ trace' = <<"check_completeness">>
    /\ UNCHANGED <<call, bookCalls, nres>>

ParseRestaurantSelection ==
    /\ pc = "parse_selection"
    /\ \E message \in ParserMessages :
          call' = [call EXCEPT
                      !.arg = message,
                      !.out = parse_restaurant_selection(message, st.top_3_restaurants.items)]
    /\ pc' = "node_done"
    /\ trace' = <<"parse_selection">>
    /\ UNCHANGED <<st, bookCalls, nres>>

CheckAvailabilityNode ==
    /\ pc = "check_availability"
    /\ \E availabilities \in [1..Len(st.search_results.restaurants) -> AvailabilityAnswers] :
          /\ st' = check_availability_node(st, availabilities)
          /\ call' = [call EXCEPT !.arg = [kind |-> "availabilities", v |-> availabilities]]
    /\ pc' = "node_done"
    /\ trace' = <<"check_availability">>
    /\ UNCHANGED <<bookCalls, nres>>

ClassifyIntentNode ==
    /\ pc = "classify_intent"
    /\ \E reply \in ClassifyReplies :
          /\ st' = classify_intent_node(st, call_llm(reply))
          /\ call' = [call EXCEPT !.arg = reply]
    /\ pc' = "node_done"
    /\ trace' = <<"classify_intent">>
    /\ UNCHANGED <<bookCalls, nres>>

ExtractParametersNode ==
    /\ pc = "extract_parameters"
    /\ \E reply \in ExtractReplies :
          /\ st' = extract_parameters_node(st, call_llm(reply))
          /\ call' = [call EXCEPT !.arg = reply]
    /\ pc' = "node_done"
    /\ trace' = <<"extract_parameters">>
    /\ UNCHANGED <<bookCalls, nres>>

\* what the ranking model can list: up to MaxRank place_ids, known or not,
\* repeated or not
NodeRankReplies ==
    {[kind |-> "json", top_3 |-> t] :
        t \in UNION {[1..k -> 1..(MaxCand + 1)] : k \in 0..MaxRank}}
    \cup {[kind |-> k, top_3 |-> <<>>] : k \in {"garbage", "raise"}}

RankRestaurantsNode ==
    /\ pc = "rank"
    /\ \E reply \in NodeRankReplies :
          /\ st' = rank_restaurants_node(st, call_llm(reply)).st
          /\ call' = [call EXCEPT !.arg = reply]
    /\ pc' = "node_done"
    /\ trace' = <<"rank">>
    /\ UNCHANGED <<bookCalls, nres>>

FallbackVoiceNode ==
    /\ pc = "fallback_voice"
    /\ \E result \in VoiceAnswers :
          /\ st' = fallback_voice_node(st, result)
          /\ call' = [call EXCEPT !.arg = [kind |-> result]]
    /\ pc' = "node_done"
    /\ trace' = <<"fallback_voice">>
    /\ UNCHANGED <<bookCalls, nres>>

BookRestaurantNode ==
    /\ pc = "book"
    /\ \E result \in BookingResults :
          LET b == book_restaurant_node(st, result)
          IN /\ st' = b.st
             /\ call' = [call EXCEPT !.arg = [kind |-> result],
                                     !.out = [kind |-> IF b.called THEN "called"
                                                       ELSE "not_called"]]
    /\ pc' = "node_done"
    /\ trace' = <<"book">>
    /\ UNCHANGED <<bookCalls, nres>>

RouteAfterCompletenessCheck ==
    /\ pc = "route_after_completeness_check"
    /\ call' = [call EXCEPT !.out = [kind |-> route_after_completeness_check(st)]]
    /\ pc' = "node_done"
    /\ trace' = <<"route_after_completeness_check">>
    /\ UNCHANGED <<st, bookCalls, nres>>

RouteAfterBooking ==
    /\ pc = "route_after_booking"
    /\ call' = [call EXCEPT !.out = [kind |-> route_after_booking(st)]]
    /\ pc' = "node_done"
    /\ trace' = <<"route_after_booking">>
    /\ UNCHANGED <<st, bookCalls, nres>>

NodeNext ==
    \/ CheckCompletenessNode
    \/ ClassifyIntentNode
    \/ ExtractParametersNode
    \/ RankRestaurantsNode
    \/ FallbackVoiceNode
    \/ BookRestaurantNode
    \/ RouteAfterCompletenessCheck
    \/ RouteAfterBooking
    \/ ParseRestaurantSelection
    \/ CheckAvailabilityNode

NodeSpec == NodeInit /\ [][NodeNext]_vars

\* the step named n has been applied to call.s0 and has returned
Ran(n) == pc = "node_done" /\ trace = <<n>>

\* ------------------------------------------------------------ C16
\* a critical field is missing when it is None or empty
MissingFields(p) == IF p.isNone THEN Fields ELSE {f \in Fields : p.v[f] \in {"null", "falsy"}}

\* C16: check_completeness decides on reservation_params alone: with a
\* critical field missing it sets current_step ask_user and
\* needs_user_input true, with all five present it sets search and false,
\* and it leaves every other field of the state as it was.
CompletenessDependsOnParamsOnly ==
    Ran("check_completeness")
        => /\ st = [call.s0 EXCEPT
                       !.current_step =
                           IF MissingFields(call.s0.reservation_params) = {}
                           THEN "search" ELSE "ask_user",
                       !.needs_user_input =
                           MissingFields(call.s0.reservation_params) # {}]

\* query and location are known, the date is not, and the user is asked
CompletenessWitness ==
    /\ Ran("check_completeness")
    /\ ~call.s0.reservation_params.isNone
    /\ call.s0.reservation_params.v["query"] = "val"
    /\ call.s0.reservation_params.v["location"] = "val"
    /\ call.s0.reservation_params.v["date"] = "null"
    /\ ~call.s0.needs_user_input
    /\ st.current_step = "ask_user"
    /\ st.needs_user_input

\* ------------------------------------------------------------ C17
\* a start run has ended in which the intent was classified, the first
\* extraction gave all five critical fields and no step reported a failure
CompleteRequestHandled ==
    /\ call.kind = "start"
    /\ pc \in {"idle", "raised"}
    /\ st.user_intent = "search_and_book"
    /\ st.reservation_params = ReservationParams(Only(Fields))
    /\ st.error = "None"

\* C17: such a run has executed classify_intent, extract_parameters,
\* check_completeness, search, check_availability, rank, present_options,
\* in that order and nothing else, and has returned at waiting_selection.
ScenarioCompleteRequest ==
    CompleteRequestHandled
        => /\ trace = <<"classify_intent", "extract_parameters", "check_completeness",
                        "search", "check_availability", "rank", "present_options">>
           /\ pc = "idle"
           /\ st.current_step = "waiting_selection"

ScenarioCompleteWitness ==
    /\ CompleteRequestHandled
    /\ Count(trace, "ask_user") = 0
    /\ Len(st.top_3_restaurants.items) = 3
    /\ st.current_step = "waiting_selection"

\* ------------------------------------------------------------ C18
\* C18: for every message and every shortlist of 0 to 3 candidates,
\* parse_restaurant_selection returns None or an entry of the shortlist
\* and does not raise; a position returns the entry at that position when
\* the shortlist has one and None when it is shorter.
ParserTotal ==
    Ran("parse_selection")
        => LET top_3 == st.top_3_restaurants.items
               message == call.arg
               out == call.out
           IN /\ out.kind \in {"some", "none"}
              /\ out.kind = "some" => out.r \in Range(top_3)
              /\ message.kind = "position"
                    => IF message.n <= Len(top_3)
                       THEN out.kind = "some" /\ out.r = top_3[message.n]
                       ELSE out.kind = "none"

\* ------------------------------------------------------------ C19
\* C19: check_availability visits every candidate: a candidate whose check
\* raised is kept, with has_api_booking false and available None, the
\* others carry their answers, error is not written and the step hands
\* over to rank.
PartialAvailabilityTolerated ==
    Ran("check_availability")
        => LET before == call.s0.search_results.restaurants
               after == st.search_results.restaurants
               answers == call.arg.v
           IN /\ Len(after) = Len(before)
              /\ \A i \in 1..Len(before) :
                    /\ after[i].place_id = before[i].place_id
                    /\ answers[i].kind = "raise"
                          => ~after[i].has_api_booking /\ after[i].available = "None"
                    /\ answers[i].kind = "ok"
                          => /\ after[i].has_api_booking = answers[i].has_api_booking
                             /\ after[i].available = answers[i].available
              /\ st.error = call.s0.error
              /\ st.current_step = "rank"
              /\ Edge("check_availability", st) = "rank"

\* one of three checks raised, the other two answered
PartialAvailabilityWitness ==
    /\ Ran("check_availability")
    /\ Len(st.search_results.restaurants) = 3
    /\ call.arg.v[2].kind = "raise"
    /\ call.arg.v[1].kind = "ok" /\ call.arg.v[3].kind = "ok"
    /\ st.search_results.restaurants[1].has_api_booking
    /\ st.search_results.restaurants[3].available = "False"
    /\ st.error = "None"
    /\ st.current_step = "rank"

\* ------------------------------------------------------------ C20
\* C20: when classify_intent, extract_parameters or search sets error, the
\* step dispatched next in the same run is error.
ErrorRoutingImmediate ==
    [][(/\ pc \in {"classify_intent", "extract_parameters", "search"}
        /\ st.error = "None"
        /\ st'.error # "None")
       => pc' = "error"]_vars

\* ------------------------------------------------------------ C21
\* C21: when the request to the language model raises during
\* classify_intent or extract_parameters, the step sets error and
\* current_step error, and writes neither an intent nor new parameters.
TransportFailureTerminal ==
    ((Ran("classify_intent") \/ Ran("extract_parameters")) /\ call.arg.kind = "raise")
        => /\ st.error # "None"
           /\ st.current_step = "error"
           /\ st.user_intent = call.s0.user_intent
           /\ st.reservation_params = call.s0.reservation_params

\* ------------------------------------------------------------ C22
\* C22: no call hands back a state suspended at waiting_selection with an
\* empty shortlist, and book_restaurant is never about to run on an empty
\* candidate list.
NoSelectionOverEmptyShortlist ==
    /\ (Returned /\ st.current_step = "waiting_selection")
          => Len(st.top_3_restaurants.items) > 0
    /\ pc = "resume_book" => Len(st.search_results.restaurants) > 0

\* ------------------------------------------------------------ C23
\* the ranking reply is JSON and every place_id it lists is a candidate's
AllMatched(s, reply) ==
    /\ reply.kind = "json"
    /\ \A k \in 1..Len(reply.top_3) : KnownId(s.search_results.restaurants, reply.top_3[k])

\* C23: when the ranking reply cannot be matched back to the candidates,
\* the shortlist is the first min(3, n) candidates in search order, none of
\* them carries a score, and the step hands over to present_options.
RankingFallback ==
    (Ran("rank") /\ ~AllMatched(call.s0, call.arg))
        => LET before == call.s0.search_results.restaurants
               top_3 == st.top_3_restaurants.items
           IN /\ Len(top_3) = Min(3, Len(before))
              /\ \A i \in 1..Len(top_3) :
                    /\ top_3[i].place_id = before[i].place_id
                    /\ ~top_3[i].agent_score
              /\ st.current_step = "present_options"

\* ------------------------------------------------------------ C24
\* C24: when the ranking reply lists 1 to 3 place_ids, all of candidates,
\* the shortlist is those candidates in the reply's order, each with its
\* score, and the step hands over to present_options.
RankingOrderKept ==
    (Ran("rank") /\ AllMatched(call.s0, call.arg)
                 /\ Len(call.arg.top_3) \in 1..3)
        => LET top_3 == st.top_3_restaurants.items
           IN /\ Len(top_3) = Len(call.arg.top_3)
              /\ \A j \in 1..Len(top_3) :
                    /\ top_3[j].place_id = call.arg.top_3[j]
                    /\ top_3[j].agent_score
                    /\ top_3[j] \in Range(st.search_results.restaurants)
              /\ st.current_step = "present_options"

\* ------------------------------------------------------------ C25
\* C25: fallback_voice appends its informational message whatever the
\* voice provider does; a call that succeeded and was confirmed gives
\* voice_success, a confirmation by voice, error untouched and finalize;
\* any other result, an exception included, gives voice_failed, error set,
\* the confirmation untouched and error as the next step.
VoiceResultMapping ==
    Ran("fallback_voice")
        => /\ st.messages = append(call.s0.messages, "assistant", "fallback")
           /\ IF call.arg.kind = "confirmed"
              THEN /\ st.booking_status = "voice_success"
                   /\ st.booking_confirmation = "voice"
                   /\ st.error = call.s0.error
                   /\ st.current_step = "finalize"
                   /\ route_after_voice_fallback(st) = "finalize"
              ELSE /\ st.booking_status = "voice_failed"
                   /\ st.error \notin {"None", call.s0.error}
                   /\ st.booking_confirmation = call.s0.booking_confirmation
                   /\ st.current_step = "error"
                   /\ route_after_voice_fallback(st) = "error"

\* the restaurant answered the call and declined
VoiceDeclinedWitness ==
    /\ Ran("fallback_voice")
    /\ call.arg.kind = "declined"
    /\ call.s0.booking_status = "api_failed"
    /\ call.s0.error = "None"
    /\ st.booking_status = "voice_failed"
    /\ st.error = "voice_message"
    /\ st.messages.last = [role |-> "assistant", content |-> "fallback"]

CompletenessRouting ==
    Ran("route_after_completeness_check")
        => /\ call.s0.error # "None" => call.out.kind = "error"
           /\ (call.s0.error = "None" /\ call.s0.needs_user_input)
                 => call.out.kind = "ask_user"
           /\ (call.s0.error = "None" /\ ~call.s0.needs_user_input)
                 => call.out.kind = "search"
           /\ st = call.s0

\* a failure and a pending question: the failure wins
CompletenessRoutingWitness ==
    /\ Ran("route_after_completeness_check")
    /\ call.s0.error # "None"
    /\ call.s0.needs_user_input
    /\ call.out.kind = "error"

\* ------------------------------------------------------------ C28
\* C28: route_after_booking returns finalize for api_success,
\* fallback_voice for api_failed and error for any other booking_status,
\* None included, whether or not error is set.
BookingRouting ==
    Ran("route_after_booking")
        => call.out.kind =
              CASE call.s0.booking_status = "api_success" -> "finalize"
                [] call.s0.booking_status = "api_failed" -> "fallback_voice"
                [] OTHER -> "error"

\* the reservation went through although an earlier failure is recorded
BookingRoutingWitness ==
    /\ Ran("route_after_booking")
    /\ call.s0.booking_status = "api_success"
    /\ call.s0.error # "None"
    /\ call.out.kind = "finalize"

\* ------------------------------------------------------------ C29
\* every step that can run does run: a call in progress is not abandoned
LiveSpec == Spec /\ WF_vars(Next)

\* a start or resume call is in progress
InCall == pc \notin {"new", "idle", "raised"}

\* C29: every call ends: it dispatches at most one step per graph node plus
\* the two steps resume runs itself, no step more than once per graph
\* invocation, it hands back a state whose iteration_count is 0, and a
\* call in progress always comes to its end.
CallsTerminate ==
    /\ [](Len(trace) <= Cardinality(GraphNodes) + 2)
    /\ [](\A n \in GraphNodes : Count(trace, n) <= IF call.kind = "start" THEN 1 ELSE 2)
    /\ [](Returned => st.iteration_count = 0)
    /\ (InCall ~> ~InCall)

\* a resume has run the graph to its end and handed the state back
CallsTerminateWitness ==
    /\ Returned
    /\ call.kind = "resume"
    /\ Len(trace) = 9
    /\ st.iteration_count = 0
    /\ st.current_step = "waiting_selection"

====
